---- MODULE Spec2Model ----
(***************************************************************************)
(* The Oracle backend (ibis/backends/oracle/__init__.py) as a state        *)
(* machine: one session of the backend against one Oracle catalog.          *)
(*                                                                          *)
(* The program state is the connection (open transaction or not), the      *)
(* catalog it talks to (tables with their session-visible and committed    *)
(* rows, views), the atexit registrations, the names util.gen_name has     *)
(* handed out, and the trace of cursor / execute / commit / rollback /     *)
(* close calls the running operation has made on the connection.           *)
(*                                                                          *)
(* The engine is Oracle: a DDL statement that succeeds commits the open    *)
(* transaction implicitly and cannot be rolled back; a global temporary    *)
(* table cannot be dropped while it holds rows (the comment at lines        *)
(* 494-496 and 613-615 of the source).                                      *)
(***************************************************************************)
EXTENDS Integers, Sequences, FiniteSets, TLC

\* ------------------------------------------------------------------ bounds
\* Names util.gen_name hands out in one session (lines 437, 534, and the
\* name ibis.memtable gives anonymous data, line 425).
MaxGen == 2
\* atexit registrations kept in one session (line 531).
MaxReg == 2

\* ------------------------------------------------------- program constants
\* chunk_size of the batched INSERT, line 526.
ChunkSize == 128

\* ------------------------------------------------------------------- names
NoName == <<"none", 0>>
\* The public table name the caller works with.
T == <<"pub", 1>>
\* The identity (op.name) of a memtable the caller holds.
M == <<"mem", 1>>
Gen(k) == <<"gen", k>>
GenNames == {Gen(k) : k \in 1..MaxGen}
Names == {T, M} \cup GenNames

Schemas == {"s1", "s2"}
\* op.schema of the memtable M, and the schema of anonymous in-memory data.
MemSchema(n) == IF n = M THEN "s1" ELSE "s2"
\* len(op.data) of the memtable M: two chunks, one full and one partial.
MemLen == ChunkSize + 1
\* len of the anonymous in-memory data handed to create_table: two full chunks.
RawLen == 2 * ChunkSize

\* Rows of a table: how many it holds (row sources differ in length).
EmptyRows == 0

Absent == [exists |-> FALSE, sch |-> "none", temp |-> FALSE,
           rows |-> EmptyRows, crows |-> EmptyRows]
NewTable(sch, temp) == [exists |-> TRUE, sch |-> sch, temp |-> temp,
                        rows |-> EmptyRows, crows |-> EmptyRows]

\* ------------------------------------------------------------------- state
VARIABLES
    tables,     \* catalog: name -> table (all_tables)
    views,      \* catalog: names of the views (all_views)
    dirty,      \* the connection has an open transaction (uncommitted DML)
    atexit,     \* names registered with atexit, in registration order
    created,    \* _register_in_memory_table has issued the CREATE of M in this session
    gen,        \* names util.gen_name has handed out
    log,        \* calls the running (or last) operation made on the connection
    nc,         \* cursors the running (or last) operation acquired
    pc,         \* "idle", or "returned": an operation has just finished
    last,       \* the last operation that finished
    prev,       \* the operation that finished before it
    closed,     \* the interpreter has exited (atexit handlers have run)
    row,        \* metadata tuple handed to metadata_row_to_type
    typ,        \* what metadata_row_to_type returned for row
    results,    \* column rows get_schema fetched from all_tab_columns
    got,        \* what get_schema returned for results
    args,       \* keyword arguments of do_connect
    conn        \* what do_connect did with args

session == <<tables, views, dirty, atexit, created, gen, log, nc, pc, last, prev, closed>>

resolver == <<row, typ, results, got>>

connector == <<args, conn>>

vars == <<session, resolver, connector>>

\* ------------------------------------------------- the connection (oracledb)
\* What an operation works on: the connection and the catalog behind it. busy
\* holds the tables the engine refuses to TRUNCATE or DROP while the operation
\* runs, for a reason other than their absence (say ORA-00054, resource busy:
\* another session holds a lock on the table).
World == [tables |-> tables, views |-> views, dirty |-> dirty, atexit |-> atexit,
          created |-> created, log |-> log, nc |-> nc, busy |-> {}]

\* What another session reading the catalog sees: the tables, each with its
\* committed rows.
Visible(tbls) ==
    [n \in Names |-> [exists |-> tbls[n].exists, sch |-> tbls[n].sch,
                      rows |-> tbls[n].crows]]

\* One call on the connection: e is cursor | exec | commit | rollback | close,
\* c the cursor (scope) it belongs to, k the statement kind (for a cursor: the
\* method that acquired it), n the object named, ok whether it returned normally.
Ev(e, c, k, n, ok) == [e |-> e, c |-> c, k |-> k, n |-> n, ok |-> ok]
\* The call is appended to the trace; an execute or a commit with what other
\* sessions see once it is over (seen), every call with whether the connection
\* is then in a transaction (dirty).
Emit(w, ev) ==
    [w EXCEPT !.log = Append(@, [e |-> ev.e, c |-> ev.c, k |-> ev.k, n |-> ev.n,
                                 ok |-> ev.ok,
                                 seen |-> IF ev.e \in {"exec", "commit"}
                                          THEN Visible(w.tables) ELSE <<>>,
                                 dirty |-> w.dirty])]

\* con.cursor(): a fresh cursor; its id is the new w.nc.
Cursor(w, how) ==
    Emit([w EXCEPT !.nc = @ + 1], Ev("cursor", w.nc + 1, how, NoName, TRUE))

\* What a commit does to the catalog: every table's rows become the committed
\* ones. (The rows of a temporary table are taken to outlive the commit that
\* ends the begin() scope they were inserted in, as the INSERT ... SELECT of
\* create_table, which runs after that commit, presupposes.)
Committed(tbls) == [n \in Names |-> [tbls[n] EXCEPT !.crows = tbls[n].rows]]
\* What a rollback does: uncommitted rows are gone (DDL is not undone).
RolledBack(tbls) == [n \in Names |-> [tbls[n] EXCEPT !.rows = tbls[n].crows]]

\* con.commit()
Commit(w, c) ==
    Emit([w EXCEPT !.tables = Committed(@), !.dirty = FALSE],
         Ev("commit", c, "", NoName, TRUE))
\* con.rollback()
Rollback(w, c) ==
    Emit([w EXCEPT !.tables = RolledBack(@), !.dirty = FALSE],
         Ev("rollback", c, "", NoName, TRUE))
\* cursor.close()
CloseCur(w, c) == Emit(w, Ev("close", c, "", NoName, TRUE))

\* A statement handed to cursor.execute.
Stmt(k, n, a) == [k |-> k, n |-> n, a |-> a]
NoArg == [sch |-> "none", temp |-> FALSE, rows |-> EmptyRows, to |-> NoName,
          fail |-> FALSE, ifexists |-> FALSE]

\* The effect of a successful DDL statement: the catalog change, and Oracle's
\* implicit commit of the open transaction.
Ddl(w, tbls, vws) ==
    [w EXCEPT !.tables = Committed(tbls), !.views = vws, !.dirty = FALSE]

\* Whether the engine accepts statement s in catalog w (otherwise it raises
\* oracledb.DatabaseError).
Accepts(w, s) ==
    CASE s.k = "CREATE"      -> ~w.tables[s.n].exists /\ s.n \notin w.views
      [] s.k = "INSERT"      -> w.tables[s.n].exists /\ ~s.a.fail
      [] s.k = "TRUNCATE"    -> w.tables[s.n].exists /\ s.n \notin w.busy
      [] s.k = "DROP"        ->
            IF w.tables[s.n].exists
            THEN /\ ~(w.tables[s.n].temp /\ w.tables[s.n].rows # EmptyRows)
                 /\ s.n \notin w.busy
            ELSE s.a.ifexists
      [] s.k = "RENAME"      -> w.tables[s.n].exists => ~w.tables[s.a.to].exists
      [] s.k = "CREATE VIEW" -> ~s.a.fail /\ ~w.tables[s.n].exists /\ s.n \notin w.views
      [] s.k = "DROP VIEW"   -> s.n \in w.views
      [] s.k = "SELECT"      -> ~s.a.fail

\* The catalog and the transaction after the engine has run statement s.
Effect(w, s) ==
    CASE s.k = "CREATE" ->
            Ddl(w, [w.tables EXCEPT ![s.n] = NewTable(s.a.sch, s.a.temp)], w.views)
      [] s.k = "INSERT" ->
            [w EXCEPT !.tables[s.n].rows = @ + s.a.rows, !.dirty = TRUE]
      [] s.k = "TRUNCATE" ->
            Ddl(w, [w.tables EXCEPT ![s.n].rows = EmptyRows], w.views)
      [] s.k = "DROP" ->
            IF w.tables[s.n].exists
            THEN Ddl(w, [w.tables EXCEPT ![s.n] = Absent], w.views)
            ELSE w
      [] s.k = "RENAME" ->
            IF w.tables[s.n].exists
            THEN Ddl(w, [w.tables EXCEPT ![s.a.to] = w.tables[s.n], ![s.n] = Absent],
                     w.views)
            ELSE w
      [] s.k = "CREATE VIEW" -> Ddl(w, w.tables, w.views \cup {s.n})
      [] s.k = "DROP VIEW"   -> Ddl(w, w.tables, w.views \ {s.n})
      [] s.k = "SELECT"      -> w

\* cursor.execute(s) on cursor c: the new world, and whether it returned (ok)
\* or raised oracledb.DatabaseError.
Exec(w, c, s) ==
    IF Accepts(w, s)
    THEN [w |-> Emit(Effect(w, s), Ev("exec", c, s.k, s.n, TRUE)), ok |-> TRUE]
    ELSE [w |-> Emit(w, Ev("exec", c, s.k, s.n, FALSE)), ok |-> FALSE]

\* with contextlib.suppress(oracledb.DatabaseError): the error of an execute
\* that raised (r) is dropped; the trace notes it.
Suppress(r, c, s) ==
    IF r.ok THEN r.w ELSE Emit(r.w, Ev("suppressed", c, s.k, s.n, TRUE))

\* with contextlib.suppress(oracledb.DatabaseError): cursor.execute(s)
ExecSuppressed(w, c, s) == Suppress(Exec(w, c, s), c, s)

\* ------------------------------------------------------ Transactional Executor
\* Result of a call: the world after it and whether it returned (ok) or raised.
Ret(w, ok) == [w |-> w, ok |-> ok]

\* begin(), up to the yield: acquire the cursor (its id is the new w.nc).
begin_enter(w) == Cursor(w, "begin")

\* begin() without its except branch: the transaction is committed even when
\* the body raised.
begin_exit_always_commits(w, c, ok) == CloseCur(Commit(w, c), c)

\* begin(), after the body: rollback and re-raise when the body raised, commit
\* when it returned, and close the cursor either way.
begin_exit(w, c, ok) ==
    IF ok THEN CloseCur(Commit(w, c), c)
          ELSE CloseCur(Rollback(w, c), c)

\* raw_sql without its except branch: a failed statement leaves the transaction
\* and the cursor open.
raw_sql_without_except(r, c) ==
    IF r.ok THEN [w |-> Commit(r.w, c), ok |-> TRUE, c |-> c]
            ELSE [w |-> r.w, ok |-> FALSE, c |-> c]

\* raw_sql, after cursor.execute (r): rollback, close and re-raise when it
\* raised; commit and return the cursor when it returned.
raw_sql_except_else(r, c) ==
    IF r.ok THEN [w |-> Commit(r.w, c), ok |-> TRUE, c |-> c]
            ELSE [w |-> CloseCur(Rollback(r.w, c), c), ok |-> FALSE, c |-> c]

\* raw_sql, the try block: execute the statement on the cursor just acquired.
raw_sql_try(w1, s) == raw_sql_except_else(Exec(w1, w1.nc, s), w1.nc)

\* raw_sql(query)
raw_sql(w, s) == raw_sql_try(Cursor(w, "raw_sql"), s)

\* contextlib.closing(r): closes the cursor raw_sql returned when the with
\* block is left; when raw_sql raised there is nothing to close.
closing(r) ==
    IF r.ok THEN Ret(CloseCur(r.w, r.c), TRUE) ELSE Ret(r.w, FALSE)

\* with self._safe_raw_sql(query): pass
safe_raw_sql(w, s) == closing(raw_sql(w, s))

\* ---------------------------------------------------------- Schema Introspector
\* The listing that reads all_views only.
list_tables_views_only(r) == [w |-> r.w, names |-> r.w.views]

\* list_tables, the result of its query (run by r): the union of all_tables and
\* all_views.
list_tables_result(r) ==
    [w |-> r.w, names |-> {n \in Names : r.w.tables[n].exists} \cup r.w.views]

\* list_tables(): the query is read through _safe_raw_sql (which commits).
list_tables(w) == list_tables_result(safe_raw_sql(w, Stmt("SELECT", NoName, NoArg)))

\* get_schema, the result of its query (run by r): raises IbisError when there
\* are no column rows.
get_schema_result(r, name) ==
    Ret(r.w, r.w.tables[name].exists \/ name \in r.w.views)

\* get_schema(name): the column rows of the table, read through _safe_raw_sql.
get_schema(w, name) ==
    get_schema_result(safe_raw_sql(w, Stmt("SELECT", name, NoArg)), name)

\* _get_schema_using_query, leaving begin(): the body raised when the metadata
\* query (ok2) or the DROP VIEW (r3) did.
get_schema_using_query_exit(ok2, r3, c) ==
    Ret(begin_exit(r3.w, c, ok2 /\ r3.ok), ok2 /\ r3.ok)

\* _get_schema_using_query with the DROP VIEW after the try block instead of in
\* its finally clause.
get_schema_using_query_without_finally(r2, c, v) ==
    IF ~r2.ok THEN Ret(begin_exit(r2.w, c, FALSE), FALSE)
    ELSE get_schema_using_query_exit(TRUE, Exec(r2.w, c, Stmt("DROP VIEW", v, NoArg)), c)

\* _get_schema_using_query, the finally clause after the metadata query (r2):
\* drop the view no matter what.
get_schema_using_query_finally(r2, c, v) ==
    get_schema_using_query_exit(r2.ok, Exec(r2.w, c, Stmt("DROP VIEW", v, NoArg)), c)

\* _get_schema_using_query, after CREATE VIEW (r1): when it raised, begin()
\* rolls back; otherwise the metadata query runs in the try block.
get_schema_using_query_try(r1, c, v, q) ==
    IF ~r1.ok THEN Ret(begin_exit(r1.w, c, FALSE), FALSE)
    ELSE get_schema_using_query_finally(
             Exec(r1.w, c, Stmt("SELECT", v, [NoArg EXCEPT !.fail = (q = "nometa")])), c, v)

\* _get_schema_using_query, the with block: CREATE VIEW on the cursor of begin().
get_schema_using_query_begin(w1, v, q) ==
    get_schema_using_query_try(
        Exec(w1, w1.nc, Stmt("CREATE VIEW", v, [NoArg EXCEPT !.fail = (q = "invalid")])),
        w1.nc, v, q)

\* _get_schema_using_query(query) with the scratch view named v. q is the
\* query text: "unparsable" (sg.parse_one raises before anything is executed),
\* "invalid" (the engine rejects CREATE VIEW), "nometa" (the metadata query
\* raises) or "good".
get_schema_using_query(w, v, q) ==
    IF q = "unparsable" THEN Ret(w, FALSE)
    ELSE get_schema_using_query_begin(begin_enter(w), v, q)

\* ------------------------------------------------------ Ephemeral Object Registry
Min(a, b) == IF a < b THEN a ELSE b

\* util.chunks(n, chunk_size=128): (start, end) pairs covering 0..n.
Chunks(n) ==
    [i \in 1..((n + ChunkSize - 1) \div ChunkSize) |->
        <<(i - 1) * ChunkSize, Min(i * ChunkSize, n)>>]

\* for start, end in chunks: cur.executemany(insert_stmt, rows[start:end])
\* from chunk i on; chunk failAt (if any) raises.
RECURSIVE InsertChunks(_, _, _, _, _, _)
RECURSIVE InsertNext(_, _, _, _, _, _)
InsertChunks(w, c, name, chunks, i, failAt) ==
    IF i > Len(chunks) THEN Ret(w, TRUE)
    ELSE InsertNext(Exec(w, c, Stmt("INSERT", name,
                         [NoArg EXCEPT !.rows = chunks[i][2] - chunks[i][1],
                                       !.fail = (failAt = i)])),
                    c, name, chunks, i, failAt)
\* After the executemany of chunk i (r): the next chunk, unless it raised.
InsertNext(r, c, name, chunks, i, failAt) ==
    IF r.ok THEN InsertChunks(r.w, c, name, chunks, i + 1, failAt)
            ELSE Ret(r.w, FALSE)

\* atexit.register(self._clean_up_tmp_table, name)
Register(w, name) == [w EXCEPT !.atexit = Append(@, name)]

\* The CREATE of the in-memory table M has been issued (r).
NoteCreate(r, name) == Ret([r.w EXCEPT !.created = @ \/ name = M], r.ok)

\* cur.execute(create_stmt): the CREATE of the temporary table of an in-memory
\* table.
CreateEphemeral(w, c, name, sch) ==
    NoteCreate(Exec(w, c, Stmt("CREATE", name, [NoArg EXCEPT !.sch = sch, !.temp = TRUE])),
               name)

\* _register_in_memory_table, leaving begin() (r2: the outcome of its body),
\* then atexit.register when nothing was raised.
register_in_memory_table_exit(r2, c, name) ==
    IF r2.ok THEN Ret(Register(begin_exit(r2.w, c, TRUE), name), TRUE)
             ELSE Ret(begin_exit(r2.w, c, FALSE), FALSE)

\* _register_in_memory_table, after the CREATE (r1): the INSERT batches.
register_in_memory_table_insert(r1, c, name, len, failAt) ==
    register_in_memory_table_exit(
        IF r1.ok THEN InsertChunks(r1.w, c, name, Chunks(len), 1, failAt) ELSE r1,
        c, name)

\* _register_in_memory_table, the with block: CREATE on the cursor of begin().
register_in_memory_table_begin(w1, name, len, failAt) ==
    register_in_memory_table_insert(
        CreateEphemeral(w1, w1.nc, name, MemSchema(name)), w1.nc, name, len, failAt)

\* _register_in_memory_table without the list_tables check.
register_in_memory_table_unchecked(l, name, len, failAt) ==
    register_in_memory_table_begin(begin_enter(l.w), name, len, failAt)

\* _register_in_memory_table, after list_tables (l): only register if we
\* haven't already done so.
register_in_memory_table_check(l, name, len, failAt) ==
    IF name \notin l.names
    THEN register_in_memory_table_begin(begin_enter(l.w), name, len, failAt)
    ELSE Ret(Register(l.w, name), TRUE)

\* _register_in_memory_table(op) for the in-memory table op.name = name with
\* len(op.data) = len; chunk failAt of the INSERT raises (0: none does).
register_in_memory_table(w, name, len, failAt) ==
    register_in_memory_table_check(list_tables(w), name, len, failAt)

\* _clean_up_tmp_table with the DROP before the TRUNCATE.
clean_up_tmp_table_drop_first(w1, name) ==
    begin_exit(ExecSuppressed(ExecSuppressed(w1, w1.nc, Stmt("DROP", name, NoArg)),
                              w1.nc, Stmt("TRUNCATE", name, NoArg)),
               w1.nc, TRUE)

\* _clean_up_tmp_table, the with block: TRUNCATE then DROP on the cursor of
\* begin(), each with oracledb.DatabaseError suppressed.
clean_up_tmp_table_begin(w1, name) ==
    begin_exit(ExecSuppressed(ExecSuppressed(w1, w1.nc, Stmt("TRUNCATE", name, NoArg)),
                              w1.nc, Stmt("DROP", name, NoArg)),
               w1.nc, TRUE)

\* _clean_up_tmp_table(name)
clean_up_tmp_table(w, name) == clean_up_tmp_table_begin(begin_enter(w), name)

\* The atexit handlers, run last registered first.
RECURSIVE RunAtexit(_, _)
RunAtexit(w, i) ==
    IF i = 0 THEN w
    ELSE RunAtexit(clean_up_tmp_table(w, w.atexit[i]), i - 1)

\* --------------------------------------------------------------- Table Materializer
\* drop_table, the with block: the TRUNCATE on the cursor of begin(), with
\* oracledb.DatabaseError suppressed.
drop_table_begin(w1, name) ==
    begin_exit(ExecSuppressed(w1, w1.nc, Stmt("TRUNCATE", name, NoArg)), w1.nc, TRUE)

\* drop_table, first half: the TRUNCATE in its own begin() scope.
drop_table_truncate(w, name) == drop_table_begin(begin_enter(w), name)

\* drop_table, second half: super().drop_table(name, force=force), i.e.
\* DROP TABLE [IF EXISTS] name through _safe_raw_sql.
super_drop_table(w, name, force) ==
    safe_raw_sql(w, Stmt("DROP", name, [NoArg EXCEPT !.ifexists = force]))

\* drop_table without the TRUNCATE that precedes the DROP.
drop_table_without_truncate(w, name, force) == super_drop_table(w, name, force)

\* drop_table(name, force=force)
drop_table(w, name, force) ==
    super_drop_table(drop_table_truncate(w, name), name, force)

\* ---------------------------------------------------------------- Type Resolver
\* Python's None, and a value that is not None.
None == <<>>
Some(v) == <<v>>

MaxPrecision == 2
MaxScale == 2

\* data_type of a column: the generic numeric type and two others, one of which
\* the catalog reports with data_precision NULL and data_scale 0.
TypeStrings == {"NUMBER", "VARCHAR2", "TIMESTAMP(0)"}
Precisions == {None} \cup {Some(p) : p \in 1..MaxPrecision}
Scales == {None} \cup {Some(s) : s \in (-1)..MaxScale}
Rows == [type_string : TypeStrings, precision : Precisions, scale : Scales,
         nullable : BOOLEAN]

\* dt.Int64(nullable=nullable)
Int64(nullable) ==
    [kind |-> "Int64", name |-> "", precision |-> None, scale |-> None,
     nullable |-> nullable]
\* dt.Decimal(precision=precision, scale=scale, nullable=nullable)
Decimal(precision, scale, nullable) ==
    [kind |-> "Decimal", name |-> "", precision |-> precision, scale |-> scale,
     nullable |-> nullable]
\* type_mapper.from_string(type_string, nullable=nullable): the generic lookup,
\* an uninterpreted function of its two arguments.
from_string(type_string, nullable) ==
    [kind |-> "from_string", name |-> type_string, precision |-> None,
     scale |-> None, nullable |-> nullable]

\* Python's "not scale": None and 0 are false.
Not(scale) == scale = None \/ scale[1] = 0

\* metadata_row_to_type with the first two branches merged into one that drops
\* the nullable flag.
metadata_row_to_type_not_null(type_string, precision, scale, nullable) ==
    IF precision = None /\ Not(scale)
    THEN Int64(TRUE)
    ELSE IF /\ type_string = "NUMBER"
            /\ precision # None
            /\ (scale # None /\ scale[1] = 0)
    THEN Int64(nullable)
    ELSE IF /\ type_string = "NUMBER"
            /\ precision # None
            /\ (scale # None /\ scale[1] > 0)
    THEN Decimal(precision, scale, nullable)
    ELSE from_string(type_string, nullable)

metadata_row_to_type(type_string, precision, scale, nullable) ==
    IF type_string = "NUMBER" /\ precision = None /\ Not(scale)
    THEN Int64(nullable)
    ELSE IF precision = None /\ (scale # None /\ scale[1] = 0)
    THEN Int64(nullable)
    ELSE IF /\ type_string = "NUMBER"
            /\ precision # None
            /\ (scale # None /\ scale[1] = 0)
    THEN Int64(nullable)
    ELSE IF /\ type_string = "NUMBER"
            /\ precision # None
            /\ (scale # None /\ scale[1] > 0)
    THEN Decimal(precision, scale, nullable)
    ELSE from_string(type_string, nullable)

\* Nothing resolved yet.
NoRow == [type_string |-> "", precision |-> None, scale |-> None,
          nullable |-> FALSE]
NoType == [kind |-> "none", name |-> "", precision |-> None, scale |-> None,
           nullable |-> FALSE]

\* ------------------------------------------------------------------ get_schema
MaxCols == 2

\* Rows of all_tab_columns: column_name, data_type, data_precision, data_scale
\* and nullable = 'Y'.
Column(name, type_string, precision, scale, nullable) ==
    [name |-> name, type_string |-> type_string, precision |-> precision,
     scale |-> scale, nullable |-> nullable]
ColumnRows ==
    {Column("ID", "NUMBER", None, None, FALSE),
     Column("AMOUNT", "NUMBER", Some(2), Some(1), TRUE),
     Column("LABEL", "VARCHAR2", None, None, TRUE),
     Column("QTY", "NUMBER", Some(2), Some(0), TRUE)}
\* The rows of one table, in column_id order: column names are unique in a table.
RECURSIVE ColumnLists(_)
ColumnLists(k) ==
    IF k = 0 THEN {<<>>}
    ELSE ColumnLists(k - 1) \cup
         {Append(l, c) : <<l, c>> \in
             {<<l, c>> \in ColumnLists(k - 1) \X ColumnRows :
                 /\ Len(l) = k - 1
                 /\ \A i \in DOMAIN l : l[i].name # c.name}}

\* fields[name] = type on a dict that keeps insertion order: a key that is
\* already there keeps its place and takes the new value.
DictSet(fields, name, type) ==
    IF \E i \in DOMAIN fields : fields[i][1] = name
    THEN [i \in DOMAIN fields |->
             IF fields[i][1] = name THEN <<name, type>> ELSE fields[i]]
    ELSE Append(fields, <<name, type>>)

\* The dict comprehension of get_schema over the rows from position i on.
RECURSIVE get_schema_fields(_, _, _)
get_schema_fields(rows, i, fields) ==
    IF i > Len(rows) THEN fields
    ELSE get_schema_fields(rows, i + 1,
             DictSet(fields, rows[i].name,
                     metadata_row_to_type(rows[i].type_string, rows[i].precision,
                                          rows[i].scale, rows[i].nullable)))

\* get_schema without the "if not results" test.
get_schema_schema_unchecked(rows) ==
    [kind |-> "Schema", fields |-> get_schema_fields(rows, 1, <<>>)]

\* get_schema after the fetch: IbisError when there is no row, else the Schema.
get_schema_schema(rows) ==
    IF rows = <<>>
    THEN [kind |-> "IbisError", fields |-> <<>>]
    ELSE [kind |-> "Schema", fields |-> get_schema_fields(rows, 1, <<>>)]

\* get_schema has not been called.
NoSchema == [kind |-> "none", fields |-> <<>>]

\* ------------------------------------------------------------------ do_connect
Users == {"scott", "system"}
Passwords == {"tiger", "manager"}
Hosts == {"localhost", "db.example"}
Ports == {1521, 1522}
ConnectArgs ==
    [user : Users, password : Passwords, host : Hosts, port : Ports,
     database : {None, Some("ORCL")}, sid : {None, Some("XE")},
     service_name : {None, Some("FREEPDB1")}, dsn : {None, Some(<<"tns">>)}]

\* oracledb.makedsn(host, port, service_name=service_name, sid=sid): an
\* uninterpreted function of its four arguments.
makedsn(host, port, service_name, sid) ==
    <<"makedsn", host, port, service_name, sid>>

\* What do_connect did: raised IbisInputError before any call of the client
\* library, or called oracledb.connect(dsn, user=user, password=password); and
\* whether it warned that the DSN overrides other arguments.
IbisInputError(warned) ==
    [kind |-> "IbisInputError", warned |-> warned, dsn |-> <<>>, user |-> "",
     password |-> ""]
Connect(warned, dsn, user, password) ==
    [kind |-> "connect", warned |-> warned, dsn |-> dsn, user |-> user,
     password |-> password]

do_connect_warned(a) ==
    a.dsn # None /\ (a.database # None \/ a.sid # None \/ a.service_name # None)

\* From "if dsn is None" on, with the service name the lines above settled.
do_connect_connect(a, service_name) ==
    Connect(do_connect_warned(a),
            IF a.dsn = None
            THEN makedsn(a.host, a.port, service_name, a.sid)
            ELSE a.dsn[1],
            a.user, a.password)

\* do_connect without the test of service_name against database.
do_connect_unchecked(a) ==
    do_connect_connect(a, IF a.service_name = None /\ a.database # None
                          THEN a.database ELSE a.service_name)

do_connect(a) ==
    IF a.service_name # None /\ a.database # None
    THEN IbisInputError(do_connect_warned(a))
    ELSE do_connect_connect(a, IF a.service_name = None /\ a.database # None
                               THEN a.database ELSE a.service_name)

\* do_connect has not been called.
NoArgs == [user |-> "", password |-> "", host |-> "", port |-> 0,
           database |-> None, sid |-> None, service_name |-> None, dsn |-> None]
NoConn == [kind |-> "none", warned |-> FALSE, dsn |-> <<>>, user |-> "",
           password |-> ""]

\* ------------------------------------------------------------------ the session
\* What is remembered of a create_table call that has finished: its arguments,
\* the names generated for it, and the table the public name held when it was
\* called.
NoCall == [obj |-> "none", schema |-> "none", temp |-> FALSE, overwrite |-> FALSE,
           staging |-> NoName, tmp |-> NoName, old |-> Absent]

\* An operation that has finished: which, on which name, whether it returned
\* (ok) or raised, whether the name was a table when it was called, the CREATEs
\* and INSERTs it executed on the name, for create_table the call, and for
\* drop_table its force argument.
NoOp == [op |-> "none", n |-> NoName, ok |-> TRUE, had |-> FALSE,
         ncreate |-> 0, nins |-> 0, call |-> NoCall, force |-> FALSE]
\* What is kept of the operation before the running one: only a
\* _register_in_memory_table call is remembered.
Before(l) == IF l.op = "register" THEN l ELSE NoOp

InitSession ==
    /\ tables = [n \in Names |-> Absent]
    /\ views = {}
    /\ dirty = FALSE
    /\ atexit = <<>>
    /\ created = FALSE
    /\ gen = 0
    /\ log = <<>>
    /\ nc = 0
    /\ pc = "idle"
    /\ last = NoOp
    /\ prev = NoOp
    /\ closed = FALSE

InitResolver ==
    /\ row = NoRow
    /\ typ = NoType
    /\ results = <<>>
    /\ got = NoSchema

InitConnector ==
    /\ args = NoArgs
    /\ conn = NoConn

Init == InitSession /\ InitResolver /\ InitConnector

\* The world a new operation starts in: the trace is that of the new operation.
Fresh == [World EXCEPT !.log = <<>>, !.nc = 0]
\* The same, with the tables of b busy while the operation runs.
FreshBusy(b) == [Fresh EXCEPT !.busy = b]

SetWorld(w) ==
    /\ tables' = w.tables
    /\ views' = w.views
    /\ dirty' = w.dirty
    /\ atexit' = w.atexit
    /\ created' = w.created
    /\ log' = w.log
    /\ nc' = w.nc

\* Number of successful or failed executions of statement kind k on n in a trace.
Count(lg, k, n) ==
    Cardinality({i \in DOMAIN lg : lg[i].e = "exec" /\ lg[i].k = k /\ lg[i].n = n})

\* The record of an operation that has just finished with world w.
Done(op, n, ok, w, call) ==
    [op |-> op, n |-> n, ok |-> ok, had |-> (n \in Names /\ tables[n].exists),
     ncreate |-> Count(w.log, "CREATE", n), nins |-> Count(w.log, "INSERT", n),
     call |-> call, force |-> FALSE]

\* An operation called from the idle session runs to its end in one step.
Atomic(op, n, r) ==
    /\ pc = "idle" /\ ~closed
    /\ pc' = "returned"
    /\ \E res \in {r} :
        /\ SetWorld(res.w)
        /\ last' = Done(op, n, res.ok, res.w, NoCall)
    /\ UNCHANGED <<prev, closed, resolver, connector>>

\* con.raw_sql(query) called by the user; the cursor is the caller's to close.
RawSql ==
    \E fail \in BOOLEAN :
        /\ Atomic("raw_sql", NoName,
                  raw_sql(Fresh, Stmt("SELECT", NoName, [NoArg EXCEPT !.fail = fail])))
        /\ UNCHANGED gen

\* con.drop_table(name, force=force)
DropTable ==
    \E name \in {T, M}, force \in BOOLEAN : \E b \in {{}, {name}} :
        /\ pc = "idle" /\ ~closed
        /\ pc' = "returned"
        /\ \E res \in {drop_table(FreshBusy(b), name, force)} :
            /\ SetWorld(res.w)
            /\ last' = [Done("drop_table", name, res.ok, res.w, NoCall)
                            EXCEPT !.force = force]
        /\ UNCHANGED <<prev, closed, gen, resolver, connector>>

\* _register_in_memory_table(op) for the memtable M (the pre-execute hook of a
\* query over M).
RegisterInMemoryTable ==
    \E failAt \in 0..Len(Chunks(MemLen)) :
        /\ Len(atexit) < MaxReg
        /\ Atomic("register", M, register_in_memory_table(Fresh, M, MemLen, failAt))
        /\ UNCHANGED gen

\* _get_schema_using_query(query)
GetSchemaUsingQuery ==
    \E q \in {"good", "unparsable", "invalid", "nometa"} :
        /\ gen < MaxGen
        /\ gen' = gen + 1
        /\ Atomic("get_schema_using_query", Gen(gen + 1),
                  get_schema_using_query(Fresh, Gen(gen + 1), q))

\* _drop_cached_table(name)
DropCachedTable ==
    \E name \in {T, M} : \E b \in {{}, {name}} :
        /\ Atomic("drop_cached_table", name,
                  Ret(clean_up_tmp_table(FreshBusy(b), name), TRUE))
        /\ UNCHANGED gen

\* Interpreter exit: the atexit handlers run, and the session is over.
AtExit ==
    /\ pc = "idle" /\ ~closed
    /\ pc' = "returned"
    /\ \E b \in {{}} \cup {{atexit[i]} : i \in DOMAIN atexit} :
         \E w \in {RunAtexit(FreshBusy(b), Len(atexit))} : SetWorld(w)
    /\ last' = [NoOp EXCEPT !.op = "atexit"]
    /\ closed' = TRUE
    /\ UNCHANGED <<prev, gen, resolver, connector>>

\* The caller has the result of the operation (or its exception); the session
\* is ready for the next call, whose trace starts empty.
Return ==
    /\ pc = "returned"
    /\ pc' = "idle"
    /\ log' = <<>>
    /\ nc' = 0
    /\ last' = NoOp
    /\ prev' = Before(last)
    /\ UNCHANGED <<tables, views, dirty, atexit, created, gen, closed, resolver, connector>>

\* ------------------------------------------------------------------ create_table
\* The name of the in-memory table behind obj.
MemOf(call) == IF call.obj = "raw" THEN call.staging ELSE M
\* len(data) of the in-memory table behind obj.
LenOf(call) == IF call.obj = "raw" THEN RawLen ELSE MemLen
\* schema or table.schema()
EffectiveSchema(call) ==
    IF call.schema # "none" THEN call.schema ELSE MemSchema(MemOf(call))

\* Lines 456-460: the INSERT ... SELECT from the in-memory table into the
\* working table, on the cursor c raw_sql returned.
create_table_insert(w, call, c, insFail) ==
    IF call.obj # "none"
    THEN Exec(w, c, Stmt("INSERT", call.tmp,
              [NoArg EXCEPT !.rows = w.tables[MemOf(call)].rows,
                            !.fail = insFail \/ ~w.tables[MemOf(call)].exists]))
    ELSE Ret(w, TRUE)

\* Lines 466-468, after drop_table (r2): rename the working table.
create_table_rename(r2, call, c) ==
    IF ~r2.ok THEN r2
    ELSE Exec(r2.w, c, Stmt("RENAME", call.tmp, [NoArg EXCEPT !.to = T]))

\* The overwrite branch with drop_table(name) called without force=True.
create_table_overwrite_unforced(r1, call, c) ==
    IF ~r1.ok THEN r1
    ELSE IF ~call.overwrite THEN r1
    ELSE create_table_rename(drop_table(r1.w, T, FALSE), call, c)

\* Lines 462-468, after the INSERT (r1): for overwrite, drop the table under
\* the public name and rename the working table.
create_table_overwrite(r1, call, c) ==
    IF ~r1.ok THEN r1
    ELSE IF ~call.overwrite THEN r1
    ELSE create_table_rename(drop_table(r1.w, T, TRUE), call, c)

\* The INSERT after the drop of the old table (r2).
create_table_insert_after_drop(r2, call, c, insFail) ==
    IF ~r2.ok THEN r2 ELSE create_table_insert(r2.w, call, c, insFail)

\* The body of the with block with the drop of the old table before the INSERT.
create_table_body_drop_first(w, call, c, insFail) ==
    IF ~call.overwrite THEN create_table_insert(w, call, c, insFail)
    ELSE create_table_rename(
             create_table_insert_after_drop(drop_table(w, T, TRUE), call, c, insFail),
             call, c)

\* The body of the with block without the overwrite branch.
create_table_body_without_swap(w, call, c, insFail) ==
    create_table_insert(w, call, c, insFail)

\* Lines 456-468, the body of the with block, on the cursor c raw_sql returned:
\* the INSERT ... SELECT from the in-memory table, then for overwrite the drop
\* of the table under the public name and the rename of the working table.
create_table_body(w, call, c, insFail) ==
    create_table_overwrite(create_table_insert(w, call, c, insFail), call, c)

\* Line 476, after the drop of the anonymous in-memory table (r):
\* self.table(name) looks the new table up.
create_table_lookup(r) == IF r.ok THEN get_schema(r.w, T) ELSE r

\* Lines 470-480 without the drop of the anonymous in-memory table.
create_table_return_without_drop(w, call) ==
    IF call.schema = "none" THEN create_table_lookup(Ret(w, TRUE)) ELSE Ret(w, TRUE)

\* Lines 470-480: drop the anonymous in-memory table and look the new table up
\* when no schema was given; otherwise build the table expression from the schema.
create_table_return(w, call) ==
    IF call.schema = "none"
    THEN create_table_lookup(IF call.staging # NoName
                             THEN drop_table(w, call.staging, FALSE)
                             ELSE Ret(w, TRUE))
    ELSE Ret(w, TRUE)

\* Leaving the with block (b: the outcome of its body): contextlib.closing
\* closes the cursor on every way out.
create_table_close(b, c) == Ret(CloseCur(b.w, c), b.ok)

\* Lines 455-468, after raw_sql(create_stmt) (r): the body of the with block,
\* unless the CREATE raised.
create_table_entered(r, call, insFail) ==
    IF ~r.ok THEN Ret(r.w, FALSE)
    ELSE create_table_close(create_table_body(r.w, call, r.c, insFail), r.c)

\* Lines 436-468: CREATE the working table through _safe_raw_sql, run the body
\* of the with block, and close the cursor.
create_table_with(w, call, insFail) ==
    create_table_entered(
        raw_sql(w, Stmt("CREATE", call.tmp,
                [NoArg EXCEPT !.sch = EffectiveSchema(call), !.temp = call.temp])),
        call, insFail)

\* After the with block (b): lines 470-480, unless it raised.
create_table_after_with(b, call) ==
    IF ~b.ok THEN b ELSE create_table_return(b.w, call)

\* After self._run_pre_execute_hooks(table) (h): lines 436-480, unless it raised.
create_table_after_hooks(h, call, insFail) ==
    IF ~h.ok THEN h
    ELSE create_table_after_with(create_table_with(h.w, call, insFail), call)

\* create_table without the test "if obj is None and schema is None".
create_table_without_check(w, call, failAt, insFail) ==
    create_table_after_hooks(
        IF call.obj # "none"
        THEN register_in_memory_table(w, MemOf(call), LenOf(call), failAt)
        ELSE Ret(w, TRUE),
        call, insFail)

\* create_table(T, obj, schema=..., temp=..., overwrite=...). call holds the
\* arguments and the names generated for it (staging: the name ibis.memtable
\* gives anonymous data, tmp: temp_name); chunk failAt of the in-memory table's
\* INSERT raises (0: none), and insFail says whether the INSERT ... SELECT raises.
create_table(w, call, failAt, insFail) ==
    IF call.obj = "none" /\ call.schema = "none"
    THEN Ret(w, FALSE)     \* raise ValueError
    ELSE create_table_after_hooks(
             IF call.obj # "none"
             \* self._run_pre_execute_hooks(table)
             THEN register_in_memory_table(w, MemOf(call), LenOf(call), failAt)
             ELSE Ret(w, TRUE),
             call, insFail)

\* The values of temp the session calls create_table with: permanent tables.
\* (temp only adds the TEMPORARY property to the CREATE text, lines 419-420.)
Temps == {FALSE}
\* A call with neither obj nor schema is made with every value of temp.
TempsOf(obj, schema) ==
    IF obj = "none" /\ schema = "none" THEN BOOLEAN ELSE Temps

\* con.create_table(T, obj, schema=schema, temp=temp, overwrite=overwrite)
CreateTable ==
    \E obj \in {"none", "raw", "mem"}, schema \in {"none"} \cup Schemas,
       temp \in BOOLEAN, overwrite \in BOOLEAN,
       failAt \in 0..Len(Chunks(MemLen)), insFail \in BOOLEAN :
        LET named == obj = "raw"
            need  == (IF named THEN 1 ELSE 0) + (IF overwrite THEN 1 ELSE 0)
            call  == [obj |-> obj, schema |-> schema, temp |-> temp,
                      overwrite |-> overwrite,
                      staging |-> IF named THEN Gen(gen + 1) ELSE NoName,
                      tmp |-> IF overwrite THEN Gen(gen + need) ELSE T,
                      old |-> tables[T]]
        IN  /\ pc = "idle" /\ ~closed
            /\ temp \in TempsOf(obj, schema)
            /\ obj = "none" => failAt = 0 /\ ~insFail
            /\ gen + need <= MaxGen
            /\ obj # "none" => Len(atexit) < MaxReg
            /\ pc' = "returned"
            /\ \E r \in {create_table(Fresh, call, failAt, insFail)} :
                \* util.gen_name is called at line 437 only when it is reached
                LET used == (IF named THEN 1 ELSE 0)
                            + (IF overwrite /\ Count(r.w.log, "CREATE", call.tmp) > 0
                               THEN 1 ELSE 0)
                IN  /\ gen' = gen + used
                    /\ SetWorld(r.w)
                    /\ last' = Done("create_table", T, r.ok, r.w, call)
            /\ UNCHANGED <<prev, closed, resolver, connector>>

Next ==
    \/ RawSql
    \/ DropTable
    \/ RegisterInMemoryTable
    \/ GetSchemaUsingQuery
    \/ DropCachedTable
    \/ CreateTable
    \/ AtExit
    \/ Return

Spec == Init /\ [][Next]_vars

\* ----------------------------------------------------- the resolver on its own
\* metadata_row_to_type and get_schema applied to every metadata tuple and every
\* list of column rows within the bounds.
MetadataRowToType ==
    /\ typ = NoType
    /\ typ' = metadata_row_to_type(row.type_string, row.precision, row.scale,
                                   row.nullable)
    /\ UNCHANGED <<session, row, results, got, connector>>

GetSchema ==
    /\ got = NoSchema
    /\ got' = get_schema_schema(results)
    /\ UNCHANGED <<session, row, typ, results, connector>>

InitRows ==
    /\ InitSession
    /\ row \in Rows
    /\ typ = NoType
    /\ results \in ColumnLists(MaxCols)
    /\ got = NoSchema
    /\ InitConnector

NextResolver ==
    \/ MetadataRowToType
    \/ GetSchema

SpecResolver == InitRows /\ [][NextResolver]_vars

\* ---------------------------------------------------- do_connect on its own
DoConnect ==
    /\ conn = NoConn
    /\ conn' = do_connect(args)
    /\ UNCHANGED <<session, resolver, args>>

InitArgs ==
    /\ InitSession
    /\ InitResolver
    /\ args \in ConnectArgs
    /\ conn = NoConn

NextConnector ==
    \/ DoConnect

SpecConnector == InitArgs /\ [][NextConnector]_vars

\* ---------------------------------------------------------- reading the trace
\* An operation of the given kind has just finished.
Returned(op) == pc = "returned" /\ last.op = op

\* The cursors the operation acquired through begin() or raw_sql.
Scopes(how) ==
    {log[i].c : i \in {j \in DOMAIN log : log[j].e = "cursor" /\ log[j].k = how}}

\* The commit, rollback and close calls made for cursor c, in order.
Ending(c) ==
    LET IsEnd(e) == e.c = c /\ e.e \in {"commit", "rollback", "close"}
        s == SelectSeq(log, IsEnd)
    IN  [i \in DOMAIN s |-> s[i].e]

\* A statement executed on cursor c raised and the error was not suppressed.
Raised(c) ==
    \E i \in DOMAIN log :
        /\ log[i].e = "exec" /\ log[i].c = c /\ ~log[i].ok
        /\ (i = Len(log) \/ log[i + 1].e # "suppressed")

\* Positions of the trace at which statement k on n was executed with outcome ok.
Execs(k, n, ok) ==
    {i \in DOMAIN log : log[i].e = "exec" /\ log[i].k = k /\ log[i].n = n /\ log[i].ok = ok}

\* The engine refused a statement on n although n was a table then.
Refused(n) ==
    \E i \in DOMAIN log :
        log[i].e = "exec" /\ log[i].n = n /\ ~log[i].ok /\ log[i].seen[n].exists

\* The objects of a catalog: which tables exist, with which schema.
Catalog(tbls) ==
    [n \in Names |-> [exists |-> tbls[n].exists, sch |-> tbls[n].sch,
                      temp |-> tbls[n].temp]]

\* Positions of the trace with a view of what other sessions see.
Snapshots == {i \in DOMAIN log : log[i].e \in {"exec", "commit"}}

\* create_table(T, ..., overwrite=True) has just finished, and T was a table
\* when it was called.
Overwriting ==
    Returned("create_table") /\ last.call.overwrite /\ last.call.old.exists

\* The rows the finished create_table call was given to copy.
NewRows ==
    IF last.call.obj = "none" THEN EmptyRows
    ELSE IF last.call.obj = "raw" THEN RawLen
    ELSE tables[M].rows

\* The table the finished create_table call was asked for, as other sessions
\* see it when it is complete.
NewVisible ==
    [exists |-> TRUE, sch |-> EffectiveSchema(last.call), rows |-> NewRows]

\* --------------------------------------------------------------------- claims

\* C1 (as stated): in every intermediate state of create_table(overwrite=True)
\* on an existing name, a table is visible under the public name.
C1_AlwaysOneTableVisible ==
    Overwriting => \A i \in Snapshots : log[i].seen[T].exists

\* C1 (amended): in every intermediate state of create_table(overwrite=True) on
\* an existing name, other sessions see under the public name either the
\* original table (with the rows it had, or none once it is truncated), or no
\* table while the complete new table is visible under the working name, or the
\* new table with the working name gone.
C1_OriginalThenGapThenNew ==
    Overwriting =>
        \A i \in Snapshots :
            LET t   == log[i].seen[T]
                wk  == log[i].seen[last.call.tmp]
                old == last.call.old
            IN  \/ /\ t.exists
                   /\ t.sch = old.sch
                   /\ t.rows \in {old.crows, old.rows, EmptyRows}
                \/ ~t.exists /\ wk = NewVisible
                \/ t = NewVisible /\ ~wk.exists

\* C1 witness: an overwrite of an existing table with data succeeded, and at
\* some point of it no table was visible under the public name.
C1_Witness ==
    /\ Overwriting /\ last.ok /\ last.call.obj # "none"
    /\ \E i \in Snapshots : ~log[i].seen[T].exists

C3_BeginCommitsOrRollsBack ==
    \A c \in Scopes("begin") :
        /\ Ending(c) = IF Raised(c) THEN <<"rollback", "close">>
                                    ELSE <<"commit", "close">>
        /\ Raised(c) => ~last.ok

\* C3 witness: the metadata query of _get_schema_using_query raised inside
\* begin(), which rolled back and closed the cursor.
C3_Witness ==
    /\ Returned("get_schema_using_query")
    /\ \E c \in Scopes("begin") : Raised(c) /\ Ending(c) = <<"rollback", "close">>

\* C4: a raw_sql call whose statement succeeds commits once, right after the
\* statement, and never rolls back; one whose statement fails rolls back, closes
\* the cursor, never commits, and the operation raises.
C4_RawSqlCommitsOrRollsBack ==
    \A i \in DOMAIN log :
        (log[i].e = "cursor" /\ log[i].k = "raw_sql") =>
            LET c == log[i].c
            IN  /\ i + 2 <= Len(log)
                /\ log[i + 1].e = "exec" /\ log[i + 1].c = c
                /\ IF log[i + 1].ok
                   THEN /\ log[i + 2].e = "commit" /\ log[i + 2].c = c
                        /\ Ending(c) \in {<<"commit">>, <<"commit", "close">>}
                   ELSE /\ log[i + 2].e = "rollback" /\ log[i + 2].c = c
                        /\ Ending(c) = <<"rollback", "close">>
                        /\ ~last.ok

\* C4 witness: the statement of con.raw_sql raised, and the call rolled back.
C4_Witness ==
    /\ Returned("raw_sql") /\ ~last.ok
    /\ \E c \in Scopes("raw_sql") : Ending(c) = <<"rollback", "close">>

\* C5: create_table with data runs the CREATE and the INSERT of the working
\* table in one transactional scope: no commit between them, nothing left
\* uncommitted when the call returns, and a rollback when the INSERT fails.
C5_CreateAndInsertInOneScope ==
    (Returned("create_table") /\ last.call.obj # "none") =>
        \A i \in Execs("CREATE", last.call.tmp, TRUE) :
            \A j \in {k \in DOMAIN log : k > i /\ log[k].e = "exec"
                                        /\ log[k].k = "INSERT" /\ log[k].n = last.call.tmp} :
                /\ \A m \in (i + 1)..(j - 1) : log[m].e # "commit"
                /\ last.ok => ~dirty
                /\ ~log[j].ok => (j < Len(log) /\ log[j + 1].e = "rollback")

\* C6: a create_table call that raised leaves no table it created, neither
\* under the public name nor under the working name.
C6_FailedCreateLeavesNothing ==
    (Returned("create_table") /\ ~last.ok) =>
        /\ ~last.call.old.exists => ~tables[T].exists
        /\ last.call.overwrite => ~tables[last.call.tmp].exists

\* C7: of two _register_in_memory_table calls for the same in-memory table with
\* no other operation in between, the first on a name that is not a table,
\* exactly one CREATE is issued, by the first, with its INSERT batches; the
\* second issues neither a CREATE nor an INSERT.
C7_SecondRegistrationIsNoOp ==
    (Returned("register") /\ prev.op = "register" /\ ~prev.had) =>
        /\ last.n = prev.n
        /\ prev.ncreate + last.ncreate = 1
        /\ prev.ok => prev.nins = Len(Chunks(MemLen))
        /\ prev.nins <= Len(Chunks(MemLen))
        /\ last.nins = 0

\* C7 witness: the second of two registrations in a row has finished, the first
\* having created the table.
C7_Witness ==
    /\ Returned("register") /\ last.ok
    /\ prev.op = "register" /\ ~prev.had /\ prev.ok /\ prev.ncreate = 1

\* C8 (as stated): once the CREATE of the in-memory table M has been issued, no
\* later operation of the session issues it again.
C8_AtMostOneCreate ==
    [][(pc = "idle" /\ created) => Count(log', "CREATE", M) = 0]_vars

\* C8 (amended): an operation issues the CREATE of the in-memory table M exactly
\* when it registers M while M is not listed in the catalog, and then once; when
\* M is listed it issues neither a CREATE nor an INSERT for it.
C8_CreateIffNotListed ==
    [][(pc = "idle" /\ pc' = "returned") =>
         LET registers == \/ last'.op = "register"
                          \/ last'.op = "create_table" /\ last'.call.obj = "mem"
         IN  /\ Count(log', "CREATE", M) = IF registers /\ ~tables[M].exists THEN 1 ELSE 0
             /\ tables[M].exists => Count(log', "INSERT", M) = 0]_vars

\* C8 witness: M has been registered before, was dropped, and a registration has
\* just created it again.
C8_Witness ==
    /\ Returned("register") /\ last.ok /\ last.ncreate = 1
    /\ Len(atexit) = 2 /\ atexit[1] = M /\ atexit[2] = M

C10_ScratchViewNeverLeaks ==
    Returned("get_schema_using_query") =>
        /\ last.n \notin views
        /\ ~tables[last.n].exists
        /\ \A i \in Execs("CREATE VIEW", last.n, TRUE) :
               \E j \in Execs("DROP VIEW", last.n, TRUE) : j > i

\* C10 witness: the metadata query raised, and the view was dropped all the same.
C10_Witness ==
    /\ Returned("get_schema_using_query") /\ ~last.ok
    /\ Execs("SELECT", last.n, FALSE) # {}
    /\ Execs("DROP VIEW", last.n, TRUE) # {}

\* C11: a TRUNCATE or DROP issued as cleanup inside begin() (the TRUNCATE of
\* drop_table, the TRUNCATE and the DROP of _clean_up_tmp_table) that the engine
\* refuses although the table exists is not suppressed: the scope is rolled
\* back and the operation raises.
C11_SuppressedOnlyWhenAbsent ==
    \A i \in DOMAIN log :
        (/\ log[i].e = "exec" /\ log[i].k \in {"TRUNCATE", "DROP"} /\ ~log[i].ok
         /\ log[i].c \in Scopes("begin")
         /\ log[i].seen[log[i].n].exists) =>
            /\ Raised(log[i].c)
            /\ Ending(log[i].c) = <<"rollback", "close">>
            /\ ~last.ok

\* C12: drop_table(name, force) always executes a TRUNCATE of the table before
\* the DROP; on a name that is not a table it returns when force is true and
\* raises when force is false, and leaves the catalog as it was; on a table, a
\* call that returns leaves the name absent.
C12_DropTableForce ==
    [][(pc = "idle" /\ last'.op = "drop_table") =>
         LET n == last'.n
             truncates == {i \in DOMAIN log' : /\ log'[i].e = "exec"
                                                /\ log'[i].k = "TRUNCATE"
                                                /\ log'[i].n = n}
             drops == {i \in DOMAIN log' : /\ log'[i].e = "exec"
                                            /\ log'[i].k = "DROP"
                                            /\ log'[i].n = n}
         IN  /\ Cardinality(truncates) = 1 /\ Cardinality(drops) = 1
             /\ \A i \in truncates : \A j \in drops : i < j
             /\ ~tables[n].exists =>
                    /\ last'.ok = last'.force
                    /\ Catalog(tables') = Catalog(tables)
                    /\ views' = views
             /\ (tables[n].exists /\ last'.ok) => ~tables'[n].exists]_vars

\* C12 witness: drop_table(name, force=True) has returned on a name that was
\* not a table.
C12_Witness ==
    Returned("drop_table") /\ ~last.had /\ last.force /\ last.ok

\* ------------------------------------------------------------ resolver claims
\* The tuple metadata_row_to_type has been applied to.
Resolved == typ # NoType

\* C13: for the type name NUMBER, (precision, scale) = (None, None), (None, 0)
\* and (p, 0) with p > 0 resolve to Int64, and (p, s) with p > 0 and s > 0 to
\* Decimal(p, s); the result is nullable exactly when the row is.
C13_NumberRules ==
    Resolved =>
        /\ row.type_string = "NUMBER" =>
               /\ (row.precision = None /\ row.scale = None) =>
                      typ = Int64(row.nullable)
               /\ (row.precision = None /\ row.scale = Some(0)) =>
                      typ = Int64(row.nullable)
               /\ (row.precision # None /\ row.scale = Some(0)) =>
                      typ = Int64(row.nullable)
               /\ (/\ row.precision # None /\ row.precision[1] > 0
                   /\ row.scale # None /\ row.scale[1] > 0) =>
                      typ = Decimal(row.precision, row.scale, row.nullable)
        /\ typ.nullable = row.nullable

\* C13 witness: a nullable NUMBER(p, s) with p > 0 and s > 0 has been resolved
\* to a decimal.
C13_Witness ==
    /\ Resolved /\ row.type_string = "NUMBER" /\ row.nullable
    /\ row.precision # None /\ row.scale # None /\ row.scale[1] > 0
    /\ typ.kind = "Decimal"

\* The tuples none of the four NUMBER rules covers: every other type name with
\* any precision and scale, and NUMBER with a precision and no scale, with a
\* positive scale and no precision, or with a negative scale.
OutsideNumberRules(r) ==
    \/ r.type_string # "NUMBER"
    \/ r.precision # None /\ r.scale = None
    \/ r.precision = None /\ r.scale # None /\ r.scale[1] > 0
    \/ r.scale # None /\ r.scale[1] < 0

\* C14: every tuple outside the four NUMBER rules, a type name other than
\* NUMBER with no precision and scale 0 included, resolves to exactly what
\* from_string(type_string, nullable) returns.
C14_OthersByGenericLookup ==
    (Resolved /\ OutsideNumberRules(row)) =>
        typ = from_string(row.type_string, row.nullable)

\* C15: get_schema raises when the catalog has no column row for the table;
\* otherwise the schema has one field per row, in column_id order, each with the
\* row's column name and the type metadata_row_to_type gives for the row.
C15_SchemaFromEveryRow ==
    got # NoSchema =>
        /\ results = <<>> => got.kind = "IbisError"
        /\ results # <<>> =>
               /\ got.kind = "Schema"
               /\ Len(got.fields) = Len(results)
               /\ \A i \in DOMAIN results :
                      got.fields[i] =
                          <<results[i].name,
                            metadata_row_to_type(results[i].type_string,
                                                 results[i].precision,
                                                 results[i].scale,
                                                 results[i].nullable)>>

\* C15 witness: get_schema has returned the schema of a table of several
\* columns.
C15_Witness ==
    got.kind = "Schema" /\ Len(results) > 1 /\ Len(got.fields) > 1

\* ---------------------------------------------------------- create_table claims
\* create_table is being called with neither obj nor schema.
WithoutObjAndSchema ==
    /\ pc = "idle" /\ last'.op = "create_table"
    /\ last'.call.obj = "none" /\ last'.call.schema = "none"

\* C16: create_table with neither obj nor schema raises before anything is
\* sent to the engine, whatever temp and overwrite are: no cursor is acquired,
\* no statement is executed, no name is generated and the catalog, the open
\* transaction and the registry are as they were.
C16_NothingBeforeValueError ==
    [][WithoutObjAndSchema =>
         /\ ~last'.ok
         /\ log' = <<>> /\ nc' = 0
         /\ tables' = tables /\ views' = views /\ dirty' = dirty
         /\ atexit' = atexit /\ created' = created /\ gen' = gen]_vars

\* C16 witness: create_table(T, temp=True, overwrite=True) without obj and
\* schema has raised while T was a table.
C16_Witness ==
    /\ Returned("create_table") /\ ~last.ok /\ last.had
    /\ last.call.obj = "none" /\ last.call.schema = "none"
    /\ last.call.temp /\ last.call.overwrite

\* create_table(T, schema=S, overwrite=True) has just finished, and T was not
\* a table when it was called.
OverwritingAbsent ==
    /\ Returned("create_table") /\ last.call.overwrite /\ ~last.call.old.exists
    /\ last.call.obj = "none" /\ last.call.schema # "none"

\* The statements of kind k the call executed on the public name.
OnPublicName(k) == Execs(k, T, TRUE) \cup Execs(k, T, FALSE)

\* C17 (as stated): create_table(T, schema=S, overwrite=True) on an absent T
\* returns, executes neither a TRUNCATE nor a DROP on T, and leaves T with
\* schema S and no table under the working name.
C17_NoDropOnAbsent ==
    OverwritingAbsent =>
        /\ last.ok
        /\ OnPublicName("TRUNCATE") = {} /\ OnPublicName("DROP") = {}
        /\ tables[T].exists /\ tables[T].sch = last.call.schema
        /\ ~tables[last.call.tmp].exists

\* C17 (amended): the call returns and leaves T with schema S and no table
\* under the working name; it does execute one TRUNCATE and one DROP on the
\* absent T: the TRUNCATE fails and its error is suppressed, the DROP IF EXISTS
\* succeeds, and neither changes the catalog.
C17_DropToleratedOnAbsent ==
    OverwritingAbsent =>
        /\ last.ok
        /\ Cardinality(Execs("TRUNCATE", T, FALSE)) = 1
        /\ Execs("TRUNCATE", T, TRUE) = {}
        /\ Cardinality(Execs("DROP", T, TRUE)) = 1
        /\ Execs("DROP", T, FALSE) = {}
        /\ \A i \in OnPublicName("TRUNCATE") \cup OnPublicName("DROP") :
               ~log[i].seen[T].exists
        /\ \A i \in Execs("TRUNCATE", T, FALSE) : log[i + 1].e = "suppressed"
        /\ tables[T].exists /\ tables[T].sch = last.call.schema
        /\ ~tables[last.call.tmp].exists

\* C17 witness: such a call has returned and T is a table.
C17_Witness ==
    OverwritingAbsent /\ last.ok /\ tables[T].exists

\* --------------------------------------------------------------- connect claims
\* do_connect has been called with args.
Called == conn # NoConn

Outcome(c) == [kind |-> c.kind, dsn |-> c.dsn, user |-> c.user,
               password |-> c.password]

\* C19: when a dsn is given, calls that differ only in host, port, database,
\* sid and service_name have the same outcome.
C19_DsnOverridesTheRest ==
    (Called /\ args.dsn # None) =>
        \A a \in ConnectArgs :
            (a.dsn = args.dsn /\ a.user = args.user /\ a.password = args.password)
                => Outcome(do_connect(a)) = Outcome(conn)

\* ---------------------------------------------------------------- staging table
\* create_table(T, obj) has just finished, obj being anonymous in-memory data
\* and no schema being given.
FromAnonymousData ==
    /\ Returned("create_table")
    /\ last.call.obj = "raw" /\ last.call.schema = "none"

\* Positions of the trace at which the staging table was truncated or dropped.
StagingDrops ==
    {i \in DOMAIN log : /\ log[i].e = "exec" /\ log[i].k \in {"TRUNCATE", "DROP"}
                        /\ log[i].n = last.call.staging}

\* Before position i the working table was created and filled, its cursor was
\* closed and, for overwrite, it was renamed to the public name.
FilledBefore(i) ==
    /\ \E j \in Execs("CREATE", last.call.tmp, TRUE) : j < i
    /\ \E j \in Execs("INSERT", last.call.tmp, TRUE) : j < i
    /\ last.call.overwrite => \E j \in Execs("RENAME", last.call.tmp, TRUE) : j < i
    /\ log[i].seen[T].exists

\* C20: when create_table is given anonymous in-memory data and no schema, the
\* staging table is truncated and dropped only after the target has been
\* created and filled; a call that returns has dropped it and leaves no such
\* table in the catalog; a call that raises before that point issues no drop.
C20_StagingDroppedAfterFill ==
    FromAnonymousData =>
        /\ \A i \in StagingDrops : FilledBefore(i)
        /\ last.ok =>
               /\ Cardinality(Execs("DROP", last.call.staging, TRUE)) = 1
               /\ ~tables[last.call.staging].exists
        /\ (\/ Execs("CREATE", last.call.tmp, TRUE) = {}
            \/ Execs("INSERT", last.call.tmp, TRUE) = {}
            \/ last.call.overwrite /\ Execs("RENAME", last.call.tmp, TRUE) = {}) =>
               ~last.ok /\ StagingDrops = {}

\* C20 witness: such a call has returned, after the DROP of the staging table.
C20_Witness ==
    /\ FromAnonymousData /\ last.ok
    /\ Execs("DROP", last.call.staging, TRUE) # {}
    /\ tables[T].exists /\ ~tables[last.call.staging].exists

\* ------------------------------------------------------------ ephemeral tables
\* The names registered with atexit.
Registered == {atexit[i] : i \in DOMAIN atexit}

\* The temporary tables _register_in_memory_table created that are in the
\* catalog.
Ephemeral == {n \in Names : tables[n].exists /\ tables[n].temp}

\* C21: while the session lives, every temporary table that
\* _register_in_memory_table created and that is still in the catalog is
\* registered with atexit, also after the CREATE or an INSERT batch has raised;
\* and once the atexit handlers have run, no such table is left unless the
\* engine refused its removal.
C21_EphemeralIsRegistered ==
    /\ ~closed => Ephemeral \subseteq Registered
    /\ (closed /\ Returned("atexit")) =>
           \A n \in Ephemeral : Refused(n)

\* ------------------------------------------------------- the table that was there
\* create_table is raising at its CREATE or at its INSERT ... SELECT, called
\* while T was a table.
FailingOnExisting ==
    /\ pc = "idle" /\ last'.op = "create_table" /\ ~last'.ok
    /\ tables[T].exists
    /\ \E i \in DOMAIN log' :
           /\ log'[i].e = "exec" /\ log'[i].k \in {"CREATE", "INSERT"}
           /\ log'[i].n = last'.call.tmp /\ ~log'[i].ok

\* The TRUNCATE and DROP statements the call executes on the public name come
\* after the CREATE of the working table and, when there are rows to copy,
\* after its INSERT.
DropsAfterFill ==
    \A i \in DOMAIN log' :
        (/\ log'[i].e = "exec" /\ log'[i].k \in {"TRUNCATE", "DROP"}
         /\ log'[i].n = T) =>
            /\ \E j \in 1..(i - 1) :
                   /\ log'[j].e = "exec" /\ log'[j].k = "CREATE"
                   /\ log'[j].n = last'.call.tmp /\ log'[j].ok
            /\ last'.call.obj # "none" =>
                   \E j \in 1..(i - 1) :
                       /\ log'[j].e = "exec" /\ log'[j].k = "INSERT"
                       /\ log'[j].n = last'.call.tmp /\ log'[j].ok

\* C22: when create_table raises at the CREATE or the INSERT step, a table that
\* was under the public name is left with the schema and the rows it had; with
\* overwrite the drop of the old table comes only after the working table has
\* been created and filled.
C22_FailureLeavesOldTable ==
    [][FailingOnExisting =>
         /\ tables'[T].exists
         /\ tables'[T].sch = tables[T].sch
         /\ tables'[T].rows = tables[T].rows
         /\ DropsAfterFill]_vars

====
